---------------------------- MODULE Spec2Model ----------------------------
(***************************************************************************)
(* Model of totem-ydl-parser.py: the stream selection of parse_results,    *)
(* the handler check of url_is_valid and the control flow of extract_url   *)
(* (standard output and exit status included).                             *)
(*                                                                         *)
(* A Python dict is a function whose DOMAIN is the set of keys it holds;   *)
(* d.get(k) is Get(d, k), which yields None for a key that is absent.      *)
(* Standard output is the sequence of the strings written to it, in order. *)
(***************************************************************************)
EXTENDS Integers, Sequences, FiniteSets, TLC

VARIABLES
    pc,         \* position in the script
    check,      \* args.check
    debug,      \* args.debug
    ies,        \* ydl._ies, in the order items() yields it
    is_valid,   \* local is_valid of extract_url
    result,     \* what extract_info returned (the dict parse_results scans)
    idx,        \* position of the for loop of parse_results in result['formats']
    width,      \* local width of parse_results
    url,        \* local url of parse_results / of extract_url
    stdout,     \* the writes to standard output so far
    exit_code,  \* exit status of the process (0 unless sys.exit is called)
    extracted,  \* number of calls of ydl.extract_info so far
    exc         \* str(e) of the exception the except clause caught, or None

vars == <<pc, check, debug, ies, is_valid, result, idx, width, url, stdout,
          exit_code, extracted, exc>>

---------------------------------------------------------------------------
(* Bounds of the model *)

\* longest format list the selection is scanned over
MaxLen == 2
\* largest width a format carries
MaxWidth == 2
\* largest number of registered handlers
MaxIes == 2

---------------------------------------------------------------------------
(* Values *)

\* Python's None; str(None) is "None"
None == "None"

\* the sentinel of the failure paths
TOTEM_PL_PARSER_RESULT_ERROR == "TOTEM_PL_PARSER_RESULT_ERROR"

\* args.url
PageUrl == "http://page"

\* d.get(k)
Get(d, k) == IF k \in DOMAIN d THEN d[k] ELSE None

\* the url of the format at position k of a list (urls of a list are distinct)
UrlAt(k) == "http://stream/" \o ToString(k)

\* the string-valued attributes a format at position k may hold
AttrValues(k, key) ==
    IF key = "acodec" THEN {"none", "aac"}
    ELSE IF key = "vcodec" THEN {"none", "h264"}
    ELSE {UrlAt(k)}

\* FormatVariant at position k: acodec, vcodec, url and width are each optional
FormatVariants(k) ==
    LET strs == {"none", "aac", "h264", UrlAt(k)}
        part == UNION { {f \in [S -> strs] : \A key \in S : f[key] \in AttrValues(k, key)}
                        : S \in SUBSET {"acodec", "vcodec", "url"} }
    IN  part \cup {f @@ ("width" :> w) : f \in part, w \in 0..MaxWidth}

RECURSIVE FormatListsOfLen(_)
\* the format lists of length n
FormatListsOfLen(n) ==
    IF n = 0 THEN {<<>>}
    ELSE {Append(fs, f) : fs \in FormatListsOfLen(n - 1), f \in FormatVariants(n)}

\* the format lists of at most n formats
FormatLists(n) == UNION {FormatListsOfLen(m) : m \in 0..n}

---------------------------------------------------------------------------
(* parse_results *)

\* ScanStep with >= for >: an equal width displaces the selection
ScanStep_NonStrict(st, element) ==
    IF Get(element, "acodec") # "none" /\ Get(element, "vcodec") # "none"
    THEN IF "width" \in DOMAIN element /\ element["width"] >= st.width
         THEN [width |-> element["width"], url |-> Get(element, "url")]
         ELSE st
    ELSE st

\* ScanStep without the comparison with the running maximum
ScanStep_NoComparison(st, element) ==
    IF Get(element, "acodec") # "none" /\ Get(element, "vcodec") # "none"
    THEN IF "width" \in DOMAIN element
         THEN [width |-> element["width"], url |-> Get(element, "url")]
         ELSE st
    ELSE st

\* one iteration of the for loop: st is [width, url] before, element the format
\* (a width is an integer, on which int() changes nothing)
ScanStep(st, element) ==
    IF Get(element, "acodec") # "none" /\ Get(element, "vcodec") # "none"
    THEN IF "width" \in DOMAIN element /\ element["width"] > st.width
         THEN [width |-> element["width"], url |-> Get(element, "url")]
         ELSE st
    ELSE st

\* the locals before the loop
ScanInit == [width |-> 0, url |-> None]

RECURSIVE ScanFrom(_, _, _)
\* the loop from position k on
ScanFrom(formats, k, st) ==
    IF k > Len(formats) THEN st
    ELSE ScanFrom(formats, k + 1, ScanStep(st, formats[k]))

---------------------------------------------------------------------------
(* The scan of parse_results, one iteration per step.  The list is read   *)
(* once, front to back, so it is supplied as the loop reads it:           *)
(* result['formats'] holds the formats the loop has taken so far, and is  *)
(* the whole list once the loop has ended.                                 *)

SelInit ==
    /\ pc = "scan"
    /\ check = FALSE
    /\ debug = FALSE
    /\ ies = <<>>
    /\ is_valid = TRUE
    /\ result = [formats |-> <<>>]
    /\ idx = 1
    /\ width = ScanInit.width
    /\ url = ScanInit.url
    /\ stdout = <<>>
    /\ exit_code = 0
    /\ extracted = 1
    /\ exc = None

\* one iteration of the for loop, on the next format of the list
ScanElement ==
    /\ pc = "scan"
    /\ idx <= MaxLen
    /\ \E element \in FormatVariants(idx) :
          LET st == ScanStep([width |-> width, url |-> url], element)
          IN  /\ result' = [formats |-> Append(result["formats"], element)]
              /\ width' = st.width
              /\ url' = st.url
    /\ idx' = idx + 1
    /\ UNCHANGED <<pc, check, debug, ies, is_valid, stdout, exit_code, extracted, exc>>

\* the list is exhausted: return url
ScanReturn ==
    /\ pc = "scan"
    /\ pc' = "returned"
    /\ UNCHANGED <<check, debug, ies, is_valid, result, idx, width, url, stdout,
                   exit_code, extracted, exc>>

SelNext == ScanElement \/ ScanReturn

SpecSel == SelInit /\ [][SelNext]_vars

---------------------------------------------------------------------------
(* Standard output *)

\* print(s)
PrintLine(out, s) == Append(out, s \o "\n")

\* print(s, end='')
PrintRaw(out, s) == Append(out, s)

\* TotemYdlLogger.show_msg, which debug, info, warning and error all call
show_msg(out, dbg, msg) == IF dbg THEN PrintLine(out, msg) ELSE out

RECURSIVE show_msgs(_, _, _)
\* the library's calls of the logger during one extract_info, in order
show_msgs(out, dbg, msgs) ==
    IF msgs = <<>> THEN out
    ELSE show_msgs(show_msg(out, dbg, Head(msgs)), dbg, Tail(msgs))

---------------------------------------------------------------------------
(* url_is_valid *)

\* the names the handlers are registered under (the keys of ydl._ies)
IeNames == {"Youtube", "Vimeo", "Generic"}

\* ydl._ies.items(): handlers under distinct names, each suitable or not for
\* the url and working or not
IesOfLen(n) ==
    {h \in [1..n -> [name : IeNames, suitable : BOOLEAN, working : BOOLEAN]] :
        \A a, b \in 1..n : h[a].name = h[b].name => a = b}

RECURSIVE IesFrom(_, _)
\* the for loop of url_is_valid from position k on
IesFrom(handlers, k) ==
    IF k > Len(handlers) THEN FALSE
    ELSE IF handlers[k].name # "Generic" /\ handlers[k].suitable /\ handlers[k].working
         THEN TRUE
         ELSE IesFrom(handlers, k + 1)

\* url_is_valid without the exclusion of the handler named Generic
url_is_valid_AnyHandler(handlers) ==
    \E k \in 1..Len(handlers) : handlers[k].suitable /\ handlers[k].working

\* url_is_valid
url_is_valid(handlers) == IesFrom(handlers, 1)

---------------------------------------------------------------------------
(* parse_results as extract_url calls it *)

\* json.dumps(obj=result, indent=4), as one write
JsonDump == "{json.dumps(result)}"

\* [raised, url, out]: whether the call raised (KeyError: result has no
\* 'formats'), what it returned, and standard output after it
parse_results(res, dbg, out) ==
    LET out1 == IF dbg THEN PrintLine(out, JsonDump) ELSE out
    IN  IF "formats" \notin DOMAIN res
        THEN [raised |-> TRUE, url |-> None, out |-> out1]
        ELSE [raised |-> FALSE,
              url |-> ScanFrom(res["formats"], 1, ScanInit).url,
              out |-> out1]

---------------------------------------------------------------------------
(* What extract_info may return *)

\* a format with audio, video, a width and a url, at position k
Playable(k, w) == [acodec |-> "aac", vcodec |-> "h264", url |-> UrlAt(k)] @@ ("width" :> w)

\* result['formats'] of the results extracted: the lists of at most one
\* format, and a list of two playable formats (extract_url depends on the
\* list only through the url parse_results returns for it, or its KeyError)
ResultFormats ==
    FormatLists(1) \cup {<<Playable(1, 1), Playable(2, 2)>>}

\* the metadata of a result: duration_string and thumbnail are optional
Metadata ==
    LET base == [title |-> "Title", id |-> "Id", webpage_url |-> PageUrl]
    IN  {base,
         base @@ [duration_string |-> "1:00"],
         base @@ [thumbnail |-> "http://thumb"],
         base @@ [duration_string |-> "1:00", thumbnail |-> "http://thumb"]}

\* a single video: metadata and formats
VideoResults == {m @@ ("formats" :> fs) : m \in Metadata, fs \in ResultFormats}

\* a playlist wrapper: entries, and no formats of its own
PlaylistResults ==
    {[title |-> "Playlist", id |-> "PlId", webpage_url |-> PageUrl]
        @@ ("entries" :> <<e>>) :
        e \in {m @@ ("formats" :> fs) : m \in Metadata,
                                       fs \in {<<>>, <<Playable(1, 1)>>}}}

\* what the logger is handed during one extract_info
LibraryMessages == {<<>>, <<"[youtube] Extracting URL">>}

\* str(e) of the exception extract_info raises
DownloadError == "ERROR: Unable to download webpage"

\* str(e) of the KeyError of result['formats']
KeyError == "'formats'"

---------------------------------------------------------------------------
(* extract_url *)

Init ==
    /\ pc = "start"
    /\ check \in BOOLEAN
    /\ debug \in BOOLEAN
    /\ ies \in UNION {IesOfLen(n) : n \in 0..MaxIes}
    /\ is_valid = FALSE
    /\ result = <<>>
    /\ idx = 1
    /\ width = 0
    /\ url = PageUrl
    /\ stdout = <<>>
    /\ exit_code = 0
    /\ extracted = 0
    /\ exc = None

\* CheckUrl without the exit of the unsupported url
CheckUrl_NoGate ==
    /\ pc = "start"
    /\ is_valid' = url_is_valid(ies)
    /\ IF check
       THEN /\ stdout' = PrintRaw(stdout, IF is_valid' THEN "TRUE" ELSE "FALSE")
            /\ exit_code' = 1
            /\ pc' = "exited"
       ELSE /\ pc' = "try"
            /\ UNCHANGED <<stdout, exit_code>>
    /\ UNCHANGED <<check, debug, ies, result, idx, width, url, extracted, exc>>

\* lines 143-151: the support check, and the exits of check mode and of an
\* unsupported url
CheckUrl ==
    /\ pc = "start"
    /\ is_valid' = url_is_valid(ies)
    /\ IF check
       THEN /\ stdout' = PrintRaw(stdout, IF is_valid' THEN "TRUE" ELSE "FALSE")
            /\ exit_code' = 1
            /\ pc' = "exited"
       ELSE IF ~is_valid'
       THEN /\ stdout' = PrintRaw(stdout, TOTEM_PL_PARSER_RESULT_ERROR)
            /\ exit_code' = 1
            /\ pc' = "exited"
       ELSE /\ pc' = "try"
            /\ UNCHANGED <<stdout, exit_code>>
    /\ UNCHANGED <<check, debug, ies, result, idx, width, url, extracted, exc>>

\* lines 161-164: the except clause, on an exception whose str is msg
Except(out, dbg, msg) == IF dbg THEN PrintLine(out, msg) ELSE out

\* lines 153-164, extract_info raising
ExtractRaises ==
    /\ pc = "try"
    /\ extracted' = extracted + 1
    /\ \E msgs \in LibraryMessages :
          stdout' = Except(show_msgs(stdout, debug, msgs), debug, DownloadError)
    /\ exc' = DownloadError
    /\ exit_code' = 1
    /\ pc' = "exited"
    /\ UNCHANGED <<check, debug, ies, is_valid, result, idx, width, url>>

\* lines 153-164, extract_info returning: sanitize_info, then parse_results
ExtractReturns ==
    /\ pc = "try"
    /\ extracted' = extracted + 1
    /\ \E res \in VideoResults \cup PlaylistResults, msgs \in LibraryMessages :
          LET got == parse_results(res, debug, show_msgs(stdout, debug, msgs))
          IN  /\ result' = res
              /\ IF got.raised
                 THEN /\ stdout' = Except(got.out, debug, KeyError)
                      /\ exc' = KeyError
                      /\ exit_code' = 1
                      /\ pc' = "exited"
                      /\ url' = url
                 ELSE /\ stdout' = got.out
                      /\ url' = got.url
                      /\ pc' = "report"
                      /\ UNCHANGED <<exit_code, exc>>
    /\ UNCHANGED <<check, debug, ies, is_valid, idx, width>>

\* lines 166-174: the report
ReportLines(res, u) ==
    LET head == << "title=" \o Get(res, "title") \o "\n",
                   "id=" \o Get(res, "id") \o "\n",
                   "moreinfos=" \o Get(res, "webpage_url") \o "\n",
                   "duration=" \o Get(res, "duration_string") \o "\n",
                   "url=" \o u \o "\n" >>
    IN  IF Get(res, "thumbnail") # None
        THEN Append(head, "image-url=" \o Get(res, "thumbnail") \o "\n")
        ELSE head

\* lines 166-176, and the end of the script
Report ==
    /\ pc = "report"
    /\ IF url # None
       THEN stdout' = stdout \o ReportLines(result, url)
       ELSE stdout' = PrintRaw(stdout, TOTEM_PL_PARSER_RESULT_ERROR)
    /\ pc' = "exited"
    /\ UNCHANGED <<check, debug, ies, is_valid, result, idx, width, url, exit_code,
                   extracted, exc>>

Next == CheckUrl \/ ExtractRaises \/ ExtractReturns \/ Report

Spec == Init /\ [][Next]_vars

---------------------------------------------------------------------------
(* Properties of the selection (checked under SpecSel) *)

\* the list parse_results was given, once it has returned
Formats == result["formats"]

\* a candidate as the specification defines it: acodec and vcodec present and
\* not "none", url present
IsCandidate(f) ==
    /\ "acodec" \in DOMAIN f /\ f["acodec"] # "none"
    /\ "vcodec" \in DOMAIN f /\ f["vcodec"] # "none"
    /\ "url" \in DOMAIN f

\* the positions of the candidates that carry a width
WidthCandidates == {k \in DOMAIN Formats : IsCandidate(Formats[k]) /\ "width" \in DOMAIN Formats[k]}

\* the positions of S whose width is the largest of S
Widest(S) == {k \in S : \A j \in S : Formats[j]["width"] <= Formats[k]["width"]}

\* the positions the scan compares: neither codec is "none" (an absent codec
\* is not "none"), and a width is carried
Compared ==
    {k \in DOMAIN Formats : /\ Get(Formats[k], "acodec") # "none"
                            /\ Get(Formats[k], "vcodec") # "none"
                            /\ "width" \in DOMAIN Formats[k]}

\* the least and the greatest position of a nonempty set of positions
First(S) == CHOOSE k \in S : \A j \in S : k <= j
Last(S) == CHOOSE k \in S : \A j \in S : j <= k

\* C1: when the list holds a candidate carrying a width, parse_results
\* returns the url of a candidate whose width is the largest among the
\* candidates, whatever the other entries are.
C1_ReturnsWidestCandidate ==
    (pc = "returned" /\ WidthCandidates # {}) =>
        \E k \in Widest(WidthCandidates) : url = Formats[k]["url"]

\* C2 as claimed: when several candidates share the largest width, the url of
\* the last of them is returned.
C2_LastOfWidestWins ==
    (pc = "returned" /\ Cardinality(Widest(WidthCandidates)) >= 2) =>
        url = Formats[Last(Widest(WidthCandidates))]["url"]

\* C2 amended: when several of the entries the scan compares share the
\* largest width among them, the url of the first of them is returned if that
\* width is positive, and None (nothing is selected) if it is 0.
C2_FirstOfWidestWins ==
    (pc = "returned" /\ Cardinality(Widest(Compared)) >= 2) =>
        LET first == First(Widest(Compared))
        IN  url = IF Formats[first]["width"] > 0
                  THEN Get(Formats[first], "url")
                  ELSE None

\* two candidates tie at a positive width and the first one's url is returned
C2_Witness ==
    /\ pc = "returned"
    /\ Len(Formats) = 2
    /\ IsCandidate(Formats[1]) /\ IsCandidate(Formats[2])
    /\ Widest(Compared) = {1, 2}
    /\ Formats[1]["width"] > 0
    /\ url = UrlAt(1)

\* C5: when every entry fails the candidate criterion (a codec absent or
\* "none", or the url absent), the empty list included, parse_results returns
\* None.
C5_NoCandidateNoUrl ==
    (pc = "returned" /\ \A k \in DOMAIN Formats : ~IsCandidate(Formats[k])) =>
        url = None

\* one iteration of the loop, on the format at position idx
C10_Iteration ==
    idx' = idx + 1 =>
        LET element == result'["formats"][idx]
        IN  /\ width' >= width
            /\ "width" \notin DOMAIN element => (width' = width /\ url' = url)
            /\ ("width" \in DOMAIN element /\ element["width"] = 0) =>
                   (width' = width /\ url' = url)
            /\ (width' # width \/ url' # url) =>
                   /\ "width" \in DOMAIN element
                   /\ element["width"] > width
                   /\ width' = element["width"]
                   /\ url' = Get(element, "url")

\* C10: the running maximum starts at 0 and never decreases; an entry
\* without a width leaves the maximum and the selection as they are; an entry
\* of width 0 is never selected; the selection changes only on an entry whose
\* width is strictly greater than the running maximum.
C10_RunningMaximum ==
    /\ (width = 0 /\ url = None)
    /\ [][C10_Iteration]_vars

\* a candidate of positive width was selected, and an entry without a width
\* scanned after it left it selected
C10_Witness ==
    /\ pc = "returned"
    /\ Len(Formats) = 2
    /\ IsCandidate(Formats[1]) /\ 1 \in Compared /\ Formats[1]["width"] = MaxWidth
    /\ IsCandidate(Formats[2]) /\ "width" \notin DOMAIN Formats[2]
    /\ width = MaxWidth
    /\ url = UrlAt(1)

---------------------------------------------------------------------------
(* Properties of the process (checked under Spec) *)

\* some handler other than Generic is suitable for the url and working
Supported ==
    \E k \in DOMAIN ies : /\ ies[k].name # "Generic"
                          /\ ies[k].suitable
                          /\ ies[k].working

\* standard output holds the write s
Written(s) == \E k \in DOMAIN stdout : stdout[k] = s

\* the values a report line may carry after its key
LineValues == {None, "", "1:00", "http://thumb"}

\* standard output holds a line of the given key
HasLine(key) == \E v \in LineValues : Written(key \o "=" \o v \o "\n")

\* the key=value report was printed
Reported == pc = "exited" /\ Written("url=" \o url \o "\n")

\* C3: in extract mode with debug off, once extract_info, sanitize_info or
\* the selection has raised, standard output is exactly the sentinel and the
\* exit status is not 0.
C3_ExceptionPrintsSentinel ==
    (pc = "exited" /\ ~check /\ ~debug /\ exc # None) =>
        (stdout = <<TOTEM_PL_PARSER_RESULT_ERROR>> /\ exit_code # 0)

\* C4: the exit status is 0 only when extract mode printed the report; check
\* mode, an unsupported url, an exception and an extraction without a
\* playable url all end with another status.
C4_ExitZeroOnlyOnReport ==
    pc = "exited" => (exit_code = 0 <=> (~check /\ Reported))

\* C6: check mode prints TRUE exactly when a handler other than Generic is
\* suitable and working, FALSE otherwise, never calls extract_info, and ends
\* with a status other than 0.
C6_CheckMode ==
    (pc = "exited" /\ check) =>
        /\ stdout = << IF Supported THEN "TRUE" ELSE "FALSE" >>
        /\ extracted = 0
        /\ exit_code # 0

\* check mode answered FALSE although the Generic handler is suitable and
\* working
C6_Witness ==
    /\ pc = "exited"
    /\ check
    /\ \E k \in DOMAIN ies : ies[k].name = "Generic" /\ ies[k].suitable /\ ies[k].working
    /\ \E k \in DOMAIN ies : ies[k].name # "Generic" /\ ies[k].suitable /\ ~ies[k].working
    /\ stdout = <<"FALSE">>
    /\ exit_code = 1

\* the first entry of a playlist wrapper
FirstEntry == result["entries"][1]

\* C7: with debug off, a playlist wrapper whose first entry has a playable
\* format is reported from that entry: the selection runs on the entry's
\* formats and the report carries the entry's fields.
C7_PlaylistFirstEntry ==
    LET first == ScanFrom(FirstEntry["formats"], 1, ScanInit).url
    IN  (pc = "exited" /\ ~debug /\ "entries" \in DOMAIN result /\ first # None) =>
            (stdout = ReportLines(FirstEntry, first) /\ exit_code = 0)

\* C8: in a report, the duration line is there exactly when the result has
\* a duration and the image-url line exactly when it has a thumbnail (then
\* with the thumbnail as its value); neither is printed with a placeholder.
C8_OptionalLines ==
    Reported =>
        /\ HasLine("duration") <=> "duration_string" \in DOMAIN result
        /\ HasLine("image-url") <=> "thumbnail" \in DOMAIN result
        /\ "thumbnail" \in DOMAIN result =>
               Written("image-url=" \o result["thumbnail"] \o "\n")
        /\ ~Written("duration=" \o None \o "\n")
        /\ ~Written("image-url=" \o None \o "\n")

\* C9: in extract mode an unsupported url ends the process with the sentinel
\* as the whole output, a status other than 0 and no call of extract_info;
\* extract_info is called only after the check has answered true.
C9_CheckBeforeExtract ==
    /\ (pc = "exited" /\ ~check /\ ~Supported) =>
           /\ stdout = <<TOTEM_PL_PARSER_RESULT_ERROR>>
           /\ exit_code # 0
           /\ extracted = 0
    /\ extracted > 0 => (Supported /\ is_valid /\ ~check)
    /\ pc = "try" => (Supported /\ is_valid /\ ~check)

\* extract mode ended on a url only the Generic handler is suitable for
C9_Witness ==
    /\ pc = "exited"
    /\ ~check
    /\ ~Supported
    /\ \E k \in DOMAIN ies : ies[k].name = "Generic" /\ ies[k].suitable /\ ies[k].working
    /\ stdout = <<TOTEM_PL_PARSER_RESULT_ERROR>>
    /\ extracted = 0

=============================================================================
